---- MODULE Spec2Model ----
(***************************************************************************)
(* Model of the meta-mode permutation search of annealing.metamodes:       *)
(* Objective (objectives.py), MetaModeSolution (solution.py),              *)
(* MetaModeProblem (problem.py) and MetaModeSolver (solver.py).            *)
(*                                                                         *)
(* numpy arrays are cells of a heap (arrays), so that two attributes that  *)
(* hold the same array object are told apart from two that hold equal      *)
(* copies.  A table is a sequence of rows, one per channel; a row is a     *)
(* sequence of mode indices 0..n_modes-1.  Positions are 1-based here and  *)
(* 0-based in the source; the values stored are the source's.              *)
(***************************************************************************)
EXTENDS Integers, Sequences, FiniteSets

VARIABLES
    arrays,          \* heap of numpy tables: array id -> table, <<>> when free
    parent,          \* a MetaModeSolution built by a caller
    child,           \* the MetaModeSolution returned by parent.copy()
    problem,         \* the MetaModeProblem (a caller's, or the solver's self.problem)
    best_solution,   \* MetaModeSolver.best_solution
    best_value,      \* MetaModeSolver.best_value
    _iteration,      \* MetaModeSolver._iteration
    record,          \* MetaModeSolver.record : sequence of <<iteration, best_value>>
    steps,           \* MetaModeSolver.steps  : sequence of generated tensors
    pc,              \* "none" no solver, "idle" constructed, "solving" inside solve()
    remaining,       \* passes of the loop over trange(n_steps) still to make
    n_steps,         \* the n_steps argument of the last call, 0 when it has none
    entry_iteration, \* _iteration when the last call on the solver was entered
    solution,        \* the local `solution` of the last MetaModeSolver.step()
    value,           \* the local `value` of the last step() / evaluate()
    accepted,        \* what the last MetaModeSolver.step() returned
    call,            \* the last operation called and its arguments
    err,             \* the exception the last operation raised, "none" if it returned
    generated,       \* what the last MetaModeProblem.generate() returned
    scores           \* what sum_perms and abs_sum_perms returned, called side by side

vars == <<arrays, parent, child, problem, best_solution, best_value, _iteration,
          record, steps, pc, remaining, n_steps, entry_iteration,
          solution,
          value, accepted, call, err, generated, scores>>

solverVars == <<problem, best_solution, best_value, _iteration, record, steps, pc,
                remaining, n_steps, entry_iteration, solution, value, accepted>>

solutionVars == <<parent, child>>

resultVars == <<generated, scores>>

(***************************************************************************)
(* Bounds of the model.                                                    *)
(***************************************************************************)
\* number of heap cells (three solutions of two tables each, and temporaries)
NumArrays == 8
\* how far outside [-n_channels, n_channels) a channel argument is tried
MaxOutOfRange == 1
\* cap on MetaModeSolver._iteration (the sum of n_steps over all solve() calls)
MaxIteration == 3
\* largest n_steps passed to one solve() call
MaxNSteps == 2
\* largest n_modes of a shape below
MaxModes == 3
\* largest cross-channel correlation k of the matched-mode tensor
MaxK == 2

\* (n_modes, n_channels) of the stand-alone solutions
SolutionShapes == {<<2, 2>>, <<2, 1>>}
\* (n_modes, n_channels) of the problems and solvers
ProblemShapes == {<<2, 2>>, <<2, 3>>}

ArrIds == 1..NumArrays
\* Python's None, for an attribute that holds an array
None == 0
NoTable == <<>>

\* A local variable of the source: its value is computed once, where it is
\* assigned, and the rest of the function reads that value.
Local(assigned, Rest(_)) == CHOOSE r \in {Rest(x) : x \in {assigned}} : TRUE

(***************************************************************************)
(* numpy / random source                                                   *)
(***************************************************************************)
\* rng.choice(n, n): n draws from 0..n-1 with replacement (not what the code calls)
DrawsWithReplacement(n) == [1..n -> 0..(n - 1)]

\* every ordering of 0..n-1, for each n the model uses
Orderings ==
    [n \in 1..MaxModes |->
        {p \in [1..n -> 0..(n - 1)] : \A i, j \in 1..n : p[i] = p[j] => i = j}]

\* rng.permutation(n): a draw is any ordering of 0..n-1
rng_permutation(n) == Orderings[n]

\* rng.permutation(row): the row's entries in the order the draw p gives
Shuffled(row, p) == [i \in 1..Len(row) |-> row[p[i] + 1]]

\* np.arange(n)
arange(n) == [i \in 1..n |-> i - 1]

\* np.tile(A, reps=(n_channels, 1))
tile(A, reps) == [c \in 1..reps |-> A]

\* a row holds each of 0..n-1 exactly once
IsPermutationRow(row, n) ==
    /\ Len(row) = n
    /\ \A m \in 0..(n - 1) : Cardinality({i \in 1..n : row[i] = m}) = 1

IsPermutationTable(t, n) == \A c \in 1..Len(t) : IsPermutationRow(t[c], n)

(***************************************************************************)
(* The heap                                                                *)
(***************************************************************************)
FreeIds(h) == {a \in ArrIds : h[a] = NoTable}

\* a fresh array object holding table t; returns <<heap, id>>
NewArray(h, t) ==
    Local(CHOOSE x \in FreeIds(h) : \A y \in FreeIds(h) : x <= y,
          LAMBDA a : <<[h EXCEPT ![a] = t], a>>)

\* ndarray.copy() returning the very same object (a view), not a new one
np_copy_alias(h, a) == <<h, a>>

\* ndarray.copy(): a new array object with the same contents
np_copy(h, a) == NewArray(h, h[a])

\* the table an attribute holds, NoTable when the attribute is None
Deref(h, a) == IF a = None THEN NoTable ELSE h[a]

\* the array attributes of the live solutions p, c, b, in a fixed order
Roots(p, c, b) ==
    <<p.unpermuted_modes, p.permuted_modes, c.unpermuted_modes, c.permuted_modes,
      b.unpermuted_modes, b.permuted_modes>>

\* An array id is only the name of an object.  Live arrays are renamed 1, 2, ...
\* in the order the roots hold them, so that two heaps that differ in names
\* only are one state; an array held twice keeps one name.
Renamed(roots, a) ==
    IF a = None THEN None
    ELSE Cardinality({roots[i] : i \in 1..(CHOOSE j \in 1..Len(roots) : roots[j] = a)}
                        \ {None})

RenamedSolution(roots, s) ==
    [s EXCEPT !.unpermuted_modes = Renamed(roots, @),
              !.permuted_modes = Renamed(roots, @)]

\* reference counting: arrays no live solution holds are freed
Collect(h, roots) ==
    [x \in ArrIds |->
        IF \E j \in 1..Len(roots) : roots[j] # None /\ Renamed(roots, roots[j]) = x
        THEN h[CHOOSE a \in ArrIds : \E j \in 1..Len(roots) :
                    roots[j] = a /\ Renamed(roots, a) = x]
        ELSE NoTable]

(***************************************************************************)
(* MetaModeSolution                                                        *)
(***************************************************************************)
NoSolution ==
    [n_modes |-> 0, n_channels |-> 0, n_metamodes |-> 0,
     unpermuted_modes |-> None, permuted_modes |-> None]

\* MetaModeSolution.__init__ ; permutation is an array id or None
SolutionInit(h, n_modes, n_channels, permutation) ==
    Local(IF permutation = None
          THEN NewArray(h, tile(arange(n_modes), n_channels))
          ELSE <<h, permutation>>,
          LAMBDA made :
            [arrays |-> made[1],
             self   |-> [n_modes |-> n_modes, n_channels |-> n_channels,
                         n_metamodes |-> n_modes,
                         unpermuted_modes |-> made[2],
                         permuted_modes |-> None]])

\* MetaModeSolution.random_permutation ; draws[c] is the rng draw for row c
random_permutation(h, self, draws) ==
    Local(h[self.unpermuted_modes], LAMBDA src :
    Local(NewArray(h, [c \in 1..Len(src) |-> Shuffled(src[c], draws[c])]), LAMBDA made :
        [arrays |-> made[1],
         self   |-> [self EXCEPT !.permuted_modes = made[2]]]))

\* an index check that forgets the lower end of the range
IndexInBoundsNoLowerCheck(index, n) == index < n

\* numpy accepts the index of an axis of length n when -n <= index < n
IndexInBounds(index, n) == -n <= index /\ index < n

\* numpy counts a negative index from the end
RowOf(index, n) == IF index < 0 THEN index + n + 1 ELSE index + 1

\* permute_one_channel that keeps permuted_modes, when set, and replaces a row of it
permute_one_channel_in_place(h, self, channel, p) ==
    Local(np_copy(h, IF self.permuted_modes = None
                     THEN self.unpermuted_modes ELSE self.permuted_modes), LAMBDA made :
    Local([self EXCEPT !.permuted_modes = made[2]], LAMBDA self1 :
    Local(Len(made[1][made[2]]), LAMBDA n_rows :
        IF IndexInBounds(channel, n_rows)
        THEN [arrays |-> [made[1] EXCEPT ![made[2]][RowOf(channel, n_rows)] = p],
              self   |-> self1,
              err    |-> "none"]
        ELSE [arrays |-> made[1], self |-> self1, err |-> "IndexError"])))

\* MetaModeSolution.permute_one_channel ; p is the rng.permutation(n_modes) draw
permute_one_channel(h, self, channel, p) ==
    Local(np_copy(h, self.unpermuted_modes), LAMBDA made :
    Local([self EXCEPT !.permuted_modes = made[2]], LAMBDA self1 :
    Local(Len(made[1][made[2]]), LAMBDA n_rows :
        IF IndexInBounds(channel, n_rows)
        THEN [arrays |-> [made[1] EXCEPT ![made[2]][RowOf(channel, n_rows)] = p],
              self   |-> self1,
              err    |-> "none"]
        ELSE [arrays |-> made[1], self |-> self1, err |-> "IndexError"])))

\* MetaModeSolution.step ; channel is the rng.integers(n_channels) draw
SolutionStep(h, self, channel, p) == permute_one_channel(h, self, channel, p)

\* MetaModeSolution.copy seeded from the parent's baseline instead of its current state
copy_of_unpermuted(h, self) ==
    Local(np_copy(h, self.unpermuted_modes), LAMBDA made :
        SolutionInit(made[1], self.n_modes, self.n_channels, made[2]))

\* MetaModeSolution.copy ; the caller checks permuted_modes is set
copy(h, self) ==
    Local(np_copy(h, self.permuted_modes), LAMBDA made :
        SolutionInit(made[1], self.n_modes, self.n_channels, made[2]))

(***************************************************************************)
(* Objective                                                               *)
(***************************************************************************)
\* the members of the Objective enumeration, by name
ObjectiveNames == {"SUM", "ABS_SUM", "DYN_SUM"}

\* the members Objective.func has a case for
ScoredNames == {"SUM", "ABS_SUM"}

\* the sum of the first n entries of a sequence
RECURSIVE SumFirst(_, _)
SumFirst(s, n) == IF n = 0 THEN 0 ELSE s[n] + SumFirst(s, n - 1)

\* ndarray.sum() of a flattened array
SumSeq(s) == Local(s, LAMBDA v : SumFirst(v, Len(v)))

Abs(x) == IF x < 0 THEN -x ELSE x

\* second_pass.sum() for slot i: big_corr[perm[:, i]][:, perm[:, i]] summed
SlotSum(big_corr, perm, i) ==
    SumSeq([a \in 1..Len(perm) |->
        SumSeq([b \in 1..Len(perm) |->
            big_corr[perm[a][i] + 1][perm[b][i] + 1]])])

\* sum_perms that returns ret without the offset
sum_perms_no_offset(big_corr, perm, n_modes, n_channels) ==
    SumSeq([i \in 1..n_modes |-> SlotSum(big_corr, perm, i)])

sum_perms(big_corr, perm, n_modes, n_channels) ==
    SumSeq([i \in 1..n_modes |-> SlotSum(big_corr, perm, i)]) - n_modes * n_channels

\* abs_sum_perms that adds each slot's sum without taking its magnitude
abs_sum_perms_signed(big_corr, perm, n_modes, n_channels) ==
    SumSeq([i \in 1..n_modes |-> SlotSum(big_corr, perm, i)])
        - n_modes * n_channels

abs_sum_perms(big_corr, perm, n_modes, n_channels) ==
    SumSeq([i \in 1..n_modes |-> Abs(SlotSum(big_corr, perm, i))])
        - n_modes * n_channels

(***************************************************************************)
(* MetaModeProblem                                                         *)
(***************************************************************************)
NoProblem ==
    [correlation_matrix |-> <<>>, n_modes |-> 0, n_channels |-> 0,
     n_metamodes |-> 0, objective |-> "", reindexer |-> <<>>]

StrSelector(name) == [kind |-> "str", name |-> name]
EnumSelector(name) == [kind |-> "enum", name |-> name]

\* objective selectors a caller passes: strings and Objective members
Selectors ==
    {StrSelector(n) : n \in ObjectiveNames \cup {"sum", "bogus"}}
        \cup {EnumSelector(n) : n \in ObjectiveNames}

\* a lookup of the string among the member values, as Objective(objective) does
SelectorResolvesByValue(selector) ==
    selector.kind = "enum" \/ selector.name \in {"sum", "abs_sum", "dyn_sum"}

\* Objective[objective] looks a string up among the member names
SelectorResolves(selector) ==
    selector.kind = "enum" \/ selector.name \in ObjectiveNames

\* MetaModeProblem.__init__ ; err is "KeyError" when the string names no member
ProblemInit(correlation_matrix, n_modes, n_channels, selector) ==
    IF SelectorResolves(selector)
    THEN [err  |-> "none",
          self |-> [correlation_matrix |-> correlation_matrix,
                    n_modes |-> n_modes, n_channels |-> n_channels,
                    n_metamodes |-> n_modes, objective |-> selector.name,
                    reindexer |-> [c \in 1..n_channels |-> (c - 1) * n_modes]]]
    ELSE [err |-> "KeyError", self |-> NoProblem]

\* the table without the channel offsets: every channel indexes block 0
GlobalIndicesNoOffset(self, perm) ==
    [c \in 1..Len(perm) |-> [i \in 1..Len(perm[c]) |-> perm[c][i]]]

\* solution.permuted_modes + self.reindexer[:, None]
GlobalIndices(self, perm) ==
    [c \in 1..Len(perm) |-> [i \in 1..Len(perm[c]) |-> perm[c][i] + self.reindexer[c]]]

\* evaluate() that takes an unset permuted_modes for an empty table and scores it
evaluate_unset_as_empty(self, perm) ==
    IF self.objective \notin ScoredNames
    THEN [err |-> "KeyError", value |-> 0]
    ELSE IF perm = NoTable
    THEN [err |-> "none", value |-> -(self.n_modes * self.n_channels)]
    ELSE Local(GlobalIndices(self, perm), LAMBDA g :
            [err   |-> "none",
             value |-> IF self.objective = "SUM"
                       THEN sum_perms(self.correlation_matrix, g,
                                      self.n_modes, self.n_channels)
                       ELSE abs_sum_perms(self.correlation_matrix, g,
                                          self.n_modes, self.n_channels)])

\* MetaModeProblem.evaluate ; perm is the table solution.permuted_modes holds
evaluate(self, perm) ==
    IF self.objective \notin ScoredNames
    THEN [err |-> "KeyError", value |-> 0]
    ELSE IF perm = NoTable
    THEN [err |-> "TypeError", value |-> 0]
    ELSE Local(GlobalIndices(self, perm), LAMBDA g :
            [err   |-> "none",
             value |-> IF self.objective = "SUM"
                       THEN sum_perms(self.correlation_matrix, g,
                                      self.n_modes, self.n_channels)
                       ELSE abs_sum_perms(self.correlation_matrix, g,
                                          self.n_modes, self.n_channels)])

\* generate() taking the diagonal over axes 0 and 2: channel by slot by slot
generate_wrong_axes(self, perm) ==
    Local(GlobalIndices(self, perm), LAMBDA g :
        [a \in 1..Len(perm) |->
            [j \in 1..Len(perm[1]) |->
                [i \in 1..Len(perm[1]) |->
                    self.correlation_matrix[g[a][i] + 1][g[a][j] + 1]]]])

\* MetaModeProblem.generate : np.diagonal(corr[perm][:, :, perm], 1, 3).T
generate(self, perm) ==
    Local(GlobalIndices(self, perm), LAMBDA g :
        [i \in 1..Len(perm[1]) |->
            [a \in 1..Len(perm) |->
                [b \in 1..Len(perm) |->
                    self.correlation_matrix[g[b][i] + 1][g[a][i] + 1]]]])

\* channel and mode of a 1-based row/column of the tensor
ChannelOf(x, n_modes) == (x - 1) \div n_modes
ModeOf(x, n_modes) == (x - 1) % n_modes

\* diagonal 1, k between equal modes of different channels, 0 elsewhere
MatchedTensor(shape, k) ==
    LET n == shape[1] * shape[2]
    IN  [x \in 1..n |-> [y \in 1..n |->
            IF x = y THEN 1
            ELSE IF ChannelOf(x, shape[1]) # ChannelOf(y, shape[1])
                    /\ ModeOf(x, shape[1]) = ModeOf(y, shape[1])
                 THEN k ELSE 0]]

\* diagonal 1, k * (c1 + c2) between equal modes of channels c1 # c2, 0 elsewhere
WeightedTensor(shape, k) ==
    LET n == shape[1] * shape[2]
    IN  [x \in 1..n |-> [y \in 1..n |->
            IF x = y THEN 1
            ELSE IF ChannelOf(x, shape[1]) # ChannelOf(y, shape[1])
                    /\ ModeOf(x, shape[1]) = ModeOf(y, shape[1])
                 THEN k * (ChannelOf(x, shape[1]) + ChannelOf(y, shape[1])) ELSE 0]]

\* correlation matrices a caller passes
Tensors(shape) ==
    {MatchedTensor(shape, k) : k \in {-MaxK, 0, MaxK}}
        \cup {WeightedTensor(shape, MaxK)}

(***************************************************************************)
(* Calls a caller makes on stand-alone solutions                           *)
(***************************************************************************)
NoSelector == [kind |-> "none", name |-> ""]

\* nothing returned by the objective functions yet
NoScores == [sum |-> 0, abs_sum |-> 0, called |-> FALSE]

Call(op, who, channel, selector) ==
    [op |-> op, who |-> who, channel |-> channel, selector |-> selector]

Who == {"parent", "child"}

Get(who) == IF who = "parent" THEN parent ELSE child

\* rows of the tables a caller passes as `permutation`: every ordering of
\* 0..n_modes-1, and a row that repeats mode 0
SuppliedRows(n_modes) == rng_permutation(n_modes) \cup {[i \in 1..n_modes |-> 0]}

SuppliedTables(shape) == [1..shape[2] -> SuppliedRows(shape[1])]

\* channel arguments tried on a solution of n channels
ChannelArgs(n) == (-n - MaxOutOfRange)..(n - 1 + MaxOutOfRange)

\* the new heap and the two solutions after a call changed solution `who`
Store(h, who, s) ==
    \E p \in {IF who = "parent" THEN s ELSE parent} :
    \E c \in {IF who = "child" THEN s ELSE child} :
    \E roots \in {Roots(p, c, best_solution)} :
        /\ parent' = RenamedSolution(roots, p)
        /\ child' = RenamedSolution(roots, c)
        /\ arrays' = Collect(h, roots)

\* parent = MetaModeSolution(n_modes, n_channels)
ConstructDefault ==
    /\ parent = NoSolution
    /\ \E shape \in SolutionShapes :
        \E r \in {SolutionInit(arrays, shape[1], shape[2], None)} :
            Store(r.arrays, "parent", r.self)
    /\ call' = Call("Solution.__init__", "parent", 0, NoSelector)
    /\ err' = "none"
    /\ UNCHANGED solverVars
    /\ UNCHANGED resultVars

\* parent = MetaModeSolution(n_modes, n_channels, permutation=table)
ConstructSupplied ==
    /\ parent = NoSolution
    /\ \E shape \in SolutionShapes : \E t \in SuppliedTables(shape) :
        \E given \in {NewArray(arrays, t)} :
        \E r \in {SolutionInit(given[1], shape[1], shape[2], given[2])} :
            Store(r.arrays, "parent", r.self)
    /\ call' = Call("Solution.__init__", "parent", 0, NoSelector)
    /\ err' = "none"
    /\ UNCHANGED solverVars
    /\ UNCHANGED resultVars

\* who.random_permutation()
RandomPermutation(who) ==
    /\ Get(who) # NoSolution
    /\ LET self == Get(who)
           src  == arrays[self.unpermuted_modes]
       IN  \E draws \in [1..Len(src) -> rng_permutation(Len(src[1]))] :
             \E r \in {random_permutation(arrays, self, draws)} :
                 Store(r.arrays, who, r.self)
    /\ call' = Call("random_permutation", who, 0, NoSelector)
    /\ err' = "none"
    /\ UNCHANGED solverVars
    /\ UNCHANGED resultVars

\* who.permute_one_channel(channel)
PermuteOneChannel(who) ==
    /\ Get(who) # NoSolution
    /\ LET self == Get(who)
       IN  \E channel \in ChannelArgs(self.n_channels) :
           \E p \in rng_permutation(self.n_modes) :
             \E r \in {permute_one_channel(arrays, self, channel, p)} :
                 /\ Store(r.arrays, who, r.self)
                 /\ call' = Call("permute_one_channel", who, channel, NoSelector)
                 /\ err' = r.err
    /\ UNCHANGED solverVars
    /\ UNCHANGED resultVars

\* who.step()
Step(who) ==
    /\ Get(who) # NoSolution
    /\ LET self == Get(who)
       IN  \E channel \in 0..(self.n_channels - 1) :
           \E p \in rng_permutation(self.n_modes) :
             \E r \in {SolutionStep(arrays, self, channel, p)} :
                 /\ Store(r.arrays, who, r.self)
                 /\ call' = Call("step", who, 0, NoSelector)
                 /\ err' = r.err
    /\ UNCHANGED solverVars
    /\ UNCHANGED resultVars

\* child = parent.copy() ; None has no attribute copy
Copy ==
    /\ parent # NoSolution
    /\ IF parent.permuted_modes = None
       THEN /\ err' = "AttributeError"
            /\ UNCHANGED <<arrays, parent, child>>
       ELSE /\ \E r \in {copy(arrays, parent)} :
                    Store(r.arrays, "child", r.self)
            /\ err' = "none"
    /\ call' = Call("copy", "parent", 0, NoSelector)
    /\ UNCHANGED solverVars
    /\ UNCHANGED resultVars

(***************************************************************************)
(* Calls a caller makes on a stand-alone problem                           *)
(***************************************************************************)
\* problem = MetaModeProblem(correlation_matrix, n_modes, n_channels, objective)
ConstructProblem ==
    /\ pc = "none"
    /\ problem = NoProblem
    /\ parent = NoSolution
    /\ \E shape \in ProblemShapes : \E corr \in Tensors(shape) : \E sel \in Selectors :
        \E r \in {ProblemInit(corr, shape[1], shape[2], sel)} :
            /\ problem' = r.self
            /\ err' = r.err
            /\ call' = Call("Problem.__init__", "problem", 0, sel)
    /\ UNCHANGED <<arrays, parent, child, best_solution, best_value, _iteration,
                   record, steps, pc, remaining, n_steps, entry_iteration,
                   solution, value, accepted>>
    /\ UNCHANGED resultVars

\* problem.evaluate(MetaModeSolution(n_modes, n_channels).random_permutation())
EvaluateProblem ==
    /\ pc = "none"
    /\ problem # NoProblem
    /\ \E draws \in [1..problem.n_channels -> rng_permutation(problem.n_modes)] :
        \E made \in {SolutionInit(arrays, problem.n_modes, problem.n_channels, None)} :
        \E perm \in {random_permutation(made.arrays, made.self, draws)} :
        \E r \in {evaluate(problem, Deref(perm.arrays, perm.self.permuted_modes))} :
            /\ value' = r.value
            /\ err' = r.err
    /\ call' = Call("evaluate", "problem", 0, NoSelector)
    /\ UNCHANGED <<arrays, parent, child, problem, best_solution, best_value,
                   _iteration, record, steps, pc, remaining, n_steps,
                   entry_iteration, solution, accepted>>
    /\ UNCHANGED resultVars

(***************************************************************************)
(* MetaModeSolver                                                          *)
(***************************************************************************)
\* the contents of a solution's two tables
Snapshot(h, s) ==
    [unpermuted_modes |-> Deref(h, s.unpermuted_modes),
     permuted_modes   |-> Deref(h, s.permuted_modes)]

NoCandidate == [unpermuted_modes |-> NoTable, permuted_modes |-> NoTable]

\* MetaModeSolver.__init__ ; draws are the rng draws of random_permutation
SolverInit(h, correlation_matrix, n_modes, n_channels, selector, draws) ==
    Local(ProblemInit(correlation_matrix, n_modes, n_channels, selector), LAMBDA prob :
        IF prob.err # "none"
        THEN [err |-> prob.err, arrays |-> h, problem |-> NoProblem,
              best_solution |-> NoSolution, best_value |-> 0]
        ELSE
    Local(SolutionInit(h, n_modes, n_channels, None), LAMBDA made :
    Local(random_permutation(made.arrays, made.self, draws), LAMBDA best :
    Local(evaluate(prob.self, Deref(best.arrays, best.self.permuted_modes)), LAMBDA val :
        IF val.err # "none"
        THEN [err |-> val.err, arrays |-> h, problem |-> NoProblem,
              best_solution |-> NoSolution, best_value |-> 0]
        ELSE [err |-> "none", arrays |-> best.arrays, problem |-> prob.self,
              best_solution |-> best.self, best_value |-> val.value]))))

\* acceptance that also takes a candidate of equal value
AcceptsTies(candidate_value, best) == candidate_value >= best

\* acceptance that takes every candidate of a different value
AcceptsAnyChange(candidate_value, best) == candidate_value # best

\* value > self.best_value
Accepts(candidate_value, best) == candidate_value > best

\* best_value left as it was when the candidate is taken
BestValueStale(take, candidate_value, best_val) == best_val

\* self.best_value = value, under `if value > self.best_value`
BestValueAfter(take, candidate_value, best_val) ==
    IF take THEN candidate_value ELSE best_val

\* MetaModeSolver.step ; channel and p are the rng draws of solution.step()
SolverStep(h, prob, best, best_val, channel, p) ==
    Local(copy(h, best), LAMBDA copied :
    Local(SolutionStep(copied.arrays, copied.self, channel, p), LAMBDA moved :
    Local(evaluate(prob, Deref(moved.arrays, moved.self.permuted_modes)), LAMBDA val :
    Local(Accepts(val.value, best_val), LAMBDA take :
    Local(IF take THEN moved.self ELSE best, LAMBDA kept :
    Local(Roots(parent, child, kept), LAMBDA roots :
        [arrays        |-> Collect(moved.arrays, roots),
         best_solution |-> RenamedSolution(roots, kept),
         best_value    |-> BestValueAfter(take, val.value, best_val),
         solution      |-> Snapshot(moved.arrays, moved.self),
         value         |-> val.value,
         accepted      |-> take]))))))

\* MetaModeSolver(correlation_matrix, n_modes, n_channels, objective)
Construct(shape, corr, sel) ==
    /\ pc = "none"
    /\ problem = NoProblem
    /\ parent = NoSolution
    /\ \E draws \in [1..shape[2] -> rng_permutation(shape[1])] :
        \E r \in {SolverInit(arrays, corr, shape[1], shape[2], sel, draws)} :
            /\ arrays' = r.arrays
            /\ problem' = r.problem
            /\ best_solution' = r.best_solution
            /\ best_value' = r.best_value
            /\ err' = r.err
            /\ pc' = IF r.err = "none" THEN "idle" ELSE "none"
    /\ _iteration' = 0
    /\ record' = <<>>
    /\ steps' = <<>>
    /\ call' = Call("Solver.__init__", "solver", 0, sel)
    /\ UNCHANGED <<parent, child, remaining, n_steps, entry_iteration, solution,
                   value, accepted>>
    /\ UNCHANGED resultVars

ConstructSolver ==
    \E shape \in ProblemShapes : \E corr \in Tensors(shape) : \E sel \in Selectors :
        Construct(shape, corr, sel)

\* the scenario n_modes = 3, n_channels = 2, sum objective, matched tensor, k > 0
E2EShape == <<3, 2>>

ConstructE2E ==
    \E k \in 1..MaxK : Construct(E2EShape, MatchedTensor(E2EShape, k), StrSelector("SUM"))

\* step() that advances the iteration counter itself
DirectStepCounted ==
    /\ pc = "idle"
    /\ \E channel \in 0..(best_solution.n_channels - 1) :
       \E p \in rng_permutation(best_solution.n_modes) :
        \E r \in {SolverStep(arrays, problem, best_solution, best_value, channel, p)} :
            /\ arrays' = r.arrays
            /\ best_solution' = r.best_solution
            /\ best_value' = r.best_value
            /\ solution' = r.solution
            /\ value' = r.value
            /\ accepted' = r.accepted
    /\ call' = Call("Solver.step", "solver", 0, NoSelector)
    /\ err' = "none"
    /\ n_steps' = 0
    /\ entry_iteration' = _iteration
    /\ _iteration' = _iteration + 1
    /\ UNCHANGED <<parent, child, problem, record, steps, pc, remaining>>
    /\ UNCHANGED resultVars

\* solver.step() called by the caller, outside solve()
DirectStep ==
    /\ pc = "idle"
    /\ \E channel \in 0..(best_solution.n_channels - 1) :
       \E p \in rng_permutation(best_solution.n_modes) :
        \E r \in {SolverStep(arrays, problem, best_solution, best_value, channel, p)} :
            /\ arrays' = r.arrays
            /\ best_solution' = r.best_solution
            /\ best_value' = r.best_value
            /\ solution' = r.solution
            /\ value' = r.value
            /\ accepted' = r.accepted
    /\ call' = Call("Solver.step", "solver", 0, NoSelector)
    /\ err' = "none"
    /\ n_steps' = 0
    /\ entry_iteration' = _iteration
    /\ UNCHANGED <<parent, child, problem, _iteration, record, steps, pc, remaining>>
    /\ UNCHANGED resultVars

\* self.steps.append(...) left out
StepsNotAppended(stps, tensor) == stps

\* self.steps.append(self.problem.generate(self.best_solution))
StepsAppended(stps, tensor) == Append(stps, tensor)

\* the pair put in front of the history instead of at its end
RecordPrepended(rec, iteration, best_val) == <<<<iteration, best_val>>>> \o rec

\* self.record.append((self._iteration, self.best_value))
RecordAppended(rec, iteration, best_val) == Append(rec, <<iteration, best_val>>)

\* self._iteration += 1 indented under `if accepted`
IterationAfterAcceptedOnly(iteration, was_accepted) ==
    IF was_accepted THEN iteration + 1 ELSE iteration

\* self._iteration += 1, on every pass
IterationAfter(iteration, was_accepted) == iteration + 1

\* solver.solve(n_steps) entered: self._tqdm = trange(n_steps)
SolveBegin ==
    /\ pc = "idle"
    /\ \E n \in 0..MaxNSteps :
        /\ _iteration + n <= MaxIteration
        /\ n_steps' = n
        /\ remaining' = n
    /\ entry_iteration' = _iteration
    /\ pc' = "solving"
    /\ call' = Call("solve", "solver", 0, NoSelector)
    /\ err' = "none"
    /\ UNCHANGED <<arrays, parent, child, problem, best_solution, best_value,
                   _iteration, record, steps, solution, value, accepted>>
    /\ UNCHANGED resultVars

\* one pass of the loop `for _ in self._tqdm`
SolveIter ==
    /\ pc = "solving"
    /\ remaining > 0
    /\ \E channel \in 0..(best_solution.n_channels - 1) :
       \E p \in rng_permutation(best_solution.n_modes) :
        \E r \in {SolverStep(arrays, problem, best_solution, best_value, channel, p)} :
            /\ arrays' = r.arrays
            /\ best_solution' = r.best_solution
            /\ best_value' = r.best_value
            /\ solution' = r.solution
            /\ value' = r.value
            /\ accepted' = r.accepted
            /\ record' = IF r.accepted
                         THEN RecordAppended(record, _iteration, r.best_value)
                         ELSE record
            /\ steps' = IF r.accepted
                        THEN StepsAppended(steps,
                                 generate(problem,
                                     Deref(r.arrays, r.best_solution.permuted_modes)))
                        ELSE steps
            /\ _iteration' = IterationAfter(_iteration, r.accepted)
    /\ remaining' = remaining - 1
    /\ UNCHANGED <<parent, child, problem, pc, n_steps, entry_iteration, call, err>>
    /\ UNCHANGED resultVars

\* the loop is exhausted: self._tqdm.close(); self._tqdm = None; solve returns
SolveEnd ==
    /\ pc = "solving"
    /\ remaining = 0
    /\ pc' = "idle"
    /\ UNCHANGED <<arrays, parent, child, problem, best_solution, best_value,
                   _iteration, record, steps, remaining, n_steps, entry_iteration,
                   solution, value, accepted, call, err>>
    /\ UNCHANGED resultVars

(***************************************************************************)
(* Specifications                                                          *)
(***************************************************************************)
Init ==
    /\ arrays = [a \in ArrIds |-> NoTable]
    /\ parent = NoSolution
    /\ child = NoSolution
    /\ problem = NoProblem
    /\ best_solution = NoSolution
    /\ best_value = 0
    /\ _iteration = 0
    /\ record = <<>>
    /\ steps = <<>>
    /\ pc = "none"
    /\ remaining = 0
    /\ n_steps = 0
    /\ entry_iteration = 0
    /\ solution = NoCandidate
    /\ value = 0
    /\ accepted = FALSE
    /\ call = Call("none", "", 0, NoSelector)
    /\ err = "none"
    /\ generated = NoTable
    /\ scores = NoScores

\* problems and solvers
Next ==
    \/ ConstructProblem
    \/ EvaluateProblem
    \/ ConstructSolver
    \/ DirectStep
    \/ SolveBegin
    \/ SolveIter
    \/ SolveEnd

Spec == Init /\ [][Next]_vars

\* stand-alone solutions
NextSolution ==
    \/ ConstructDefault
    \/ ConstructSupplied
    \/ \E who \in Who : RandomPermutation(who)
    \/ \E who \in Who : PermuteOneChannel(who)
    \/ \E who \in Who : Step(who)
    \/ Copy

SolutionSpec == Init /\ [][NextSolution]_vars

\* a solver driven through solve() only
NextSolve ==
    \/ ConstructSolver
    \/ SolveBegin
    \/ SolveIter
    \/ SolveEnd

SolveSpec == Init /\ [][NextSolve]_vars

\* The end-to-end scenario.  solve(n_steps) is n_steps calls of step() and
\* history keeping that step() never reads, so the scenario is driven by step().
NextE2E ==
    \/ ConstructE2E
    \/ DirectStep

\* a call of step() whose proposal is accepted
AcceptedStep == DirectStep /\ accepted'

\* The solver is constructed, and the random source is fair: a proposal that
\* can be drawn again and again is drawn in the end.
E2ESpec ==
    /\ Init
    /\ [][NextE2E]_vars
    /\ WF_vars(ConstructE2E)
    /\ SF_vars(AcceptedStep)

(***************************************************************************)
(* evaluate(), generate() and the objective functions called directly      *)
(***************************************************************************)
\* shapes <<n_modes, n_channels>> of the problems called directly
EvalShapes == {<<1, 1>>, <<1, 2>>, <<2, 1>>, <<2, 2>>, <<3, 2>>, <<2, 3>>}

\* diagonal 1, 0 between channels, w between two modes of one channel
LooseTensor(shape, w) ==
    LET n == shape[1] * shape[2]
    IN  [x \in 1..n |-> [y \in 1..n |->
            IF x = y THEN 1
            ELSE IF ChannelOf(x, shape[1]) = ChannelOf(y, shape[1])
                 THEN w ELSE 0]]

\* diagonal 1, k * x - y in row x and column y: not symmetric
SkewTensor(shape, k) ==
    LET n == shape[1] * shape[2]
    IN  [x \in 1..n |-> [y \in 1..n |-> IF x = y THEN 1 ELSE k * x - y]]

EvalTensors(shape) ==
    Tensors(shape) \cup {LooseTensor(shape, MaxK), SkewTensor(shape, MaxK)}

\* the tables random_permutation() can leave in permuted_modes
PermutationTables(shape) == [1..shape[2] -> rng_permutation(shape[1])]

\* a solution of the problem's shape: freshly constructed, after
\* random_permutation(), or freshly returned by copy()
SolutionForms == {"fresh", "permuted", "copied"}

SolutionIn(form, shape, t) ==
    Local(SolutionInit([a \in ArrIds |-> NoTable], shape[1], shape[2], None), LAMBDA made :
    Local(random_permutation(made.arrays, made.self, t), LAMBDA permuted :
        IF form = "fresh" THEN made
        ELSE IF form = "permuted" THEN permuted
        ELSE copy(permuted.arrays, permuted.self)))

\* a problem and a solution of its shape exist; nothing has been called on them
EvalInit ==
    /\ \E shape \in EvalShapes : \E corr \in EvalTensors(shape) :
       \E name \in ObjectiveNames : \E form \in SolutionForms :
       \E t \in PermutationTables(shape) :
        \E s \in {SolutionIn(form, shape, t)} :
        \E roots \in {Roots(s.self, NoSolution, NoSolution)} :
            /\ problem = ProblemInit(corr, shape[1], shape[2], EnumSelector(name)).self
            /\ parent = RenamedSolution(roots, s.self)
            /\ arrays = Collect(s.arrays, roots)
    /\ child = NoSolution
    /\ best_solution = NoSolution
    /\ best_value = 0
    /\ _iteration = 0
    /\ record = <<>>
    /\ steps = <<>>
    /\ pc = "none"
    /\ remaining = 0
    /\ n_steps = 0
    /\ entry_iteration = 0
    /\ solution = NoCandidate
    /\ value = 0
    /\ accepted = FALSE
    /\ call = Call("none", "", 0, NoSelector)
    /\ err = "none"
    /\ generated = NoTable
    /\ scores = NoScores

\* problem.evaluate(parent)
EvaluateSolution ==
    /\ problem # NoProblem
    /\ parent # NoSolution
    /\ \E r \in {evaluate(problem, Deref(arrays, parent.permuted_modes))} :
        /\ value' = IF r.err = "none" THEN r.value ELSE value
        /\ err' = r.err
    /\ call' = Call("evaluate", "parent", 0, NoSelector)
    /\ UNCHANGED <<arrays, parent, child, problem, best_solution, best_value,
                   _iteration, record, steps, pc, remaining, n_steps,
                   entry_iteration, solution, accepted, generated, scores>>

\* problem.generate(parent) ; None + self.reindexer[:, None] raises TypeError
GenerateSolution ==
    /\ problem # NoProblem
    /\ parent # NoSolution
    /\ IF parent.permuted_modes = None
       THEN /\ err' = "TypeError"
            /\ generated' = generated
       ELSE /\ err' = "none"
            /\ generated' = generate(problem, Deref(arrays, parent.permuted_modes))
    /\ call' = Call("generate", "parent", 0, NoSelector)
    /\ UNCHANGED <<arrays, parent, child, problem, best_solution, best_value,
                   _iteration, record, steps, pc, remaining, n_steps,
                   entry_iteration, solution, value, accepted, scores>>

\* sum_perms and abs_sum_perms called on the arguments evaluate() passes
ScoreBoth ==
    /\ problem # NoProblem
    /\ parent # NoSolution
    /\ parent.permuted_modes # None
    /\ \E g \in {GlobalIndices(problem, Deref(arrays, parent.permuted_modes))} :
        scores' = [sum     |-> sum_perms(problem.correlation_matrix, g,
                                         problem.n_modes, problem.n_channels),
                   abs_sum |-> abs_sum_perms(problem.correlation_matrix, g,
                                             problem.n_modes, problem.n_channels),
                   called  |-> TRUE]
    /\ call' = Call("objectives", "parent", 0, NoSelector)
    /\ err' = "none"
    /\ UNCHANGED <<arrays, parent, child, problem, best_solution, best_value,
                   _iteration, record, steps, pc, remaining, n_steps,
                   entry_iteration, solution, value, accepted, generated>>

NextEval ==
    \/ EvaluateSolution
    \/ GenerateSolution
    \/ ScoreBoth

EvalSpec == EvalInit /\ [][NextEval]_vars

(***************************************************************************)
(* Properties                                                              *)
(***************************************************************************)
SolverExists == pc # "none"

BestTables == Snapshot(arrays, best_solution)

\* the last call on the solver was a step(), direct or a pass of solve()
Stepped == SolverExists /\ solution # NoCandidate

\* C1: over every step()/solve() transition of a constructed solver the new
\* best_value is greater than or equal to the best_value before it.
C1_BestValueNeverDecreases ==
    [][(SolverExists /\ SolverExists') => best_value' >= best_value]_vars

\* C1 witness: a candidate worse than the best was proposed and the best kept.
C1_WorseCandidateRejected ==
    Stepped /\ ~accepted /\ value < best_value

\* C2: step() returns true exactly when the candidate's value is strictly
\* greater than best_value, then the candidate and its value are the new best;
\* otherwise it returns false and best_solution and best_value are unchanged.
C2_StrictAcceptance ==
    [][(DirectStep \/ SolveIter) =>
          /\ accepted' = (value' > best_value)
          /\ accepted' => (best_value' = value' /\ BestTables' = solution')
          /\ ~accepted' => (/\ best_value' = best_value
                            /\ best_solution' = best_solution
                            /\ BestTables' = BestTables)]_vars

\* C2 witness: a candidate that differs from the best and ties it was rejected.
C2_TieRejected ==
    /\ Stepped
    /\ ~accepted
    /\ value = best_value
    /\ solution.permuted_modes # BestTables.permuted_modes

\* C4: record and steps have the same length and the iteration indices stored
\* in record are strictly increasing in the order of appending.
C4_HistoriesAligned ==
    /\ Len(record) = Len(steps)
    /\ \A i, j \in 1..Len(record) : i < j => record[i][1] < record[j][1]

\* C4 witness: two improvements have been recorded, over two solve() calls.
C4_TwoRecorded ==
    Len(record) >= 2 /\ entry_iteration > 0 /\ record[2][1] >= entry_iteration

\* the last call was solve() and it has returned
SolveReturned == pc = "idle" /\ call.op = "solve"

\* C5 as stated: after any solve(n_steps) returns, the counter equals n_steps.
C5_CounterEqualsNSteps == SolveReturned => _iteration = n_steps

\* C5 amended: after solve(n_steps) returns, the counter equals its value when
\* the call was entered plus n_steps; it equals n_steps only for a call
\* entered with the counter at 0.
C5_CounterAdvancesByNSteps ==
    SolveReturned =>
        /\ _iteration = entry_iteration + n_steps
        /\ entry_iteration = 0 => _iteration = n_steps

\* C5 witness: a second solve() call with passes has returned.
C5_SecondSolveReturned == SolveReturned /\ entry_iteration > 0 /\ n_steps > 0

\* a row of permuted_modes is a permutation of 0..n_modes-1, for s with it set
RowsArePermutations(s) ==
    s.permuted_modes # None =>
        IsPermutationTable(Deref(arrays, s.permuted_modes), s.n_modes)

\* C3 as stated: however the solution was constructed, every row of
\* permuted_modes, when set, is a permutation of 0..n_modes-1.
C3_RowsAlwaysPermutations ==
    RowsArePermutations(parent) /\ RowsArePermutations(child)

\* C3 amended: the rows of permuted_modes are permutations of 0..n_modes-1
\* for every solution whose unpermuted_modes has such rows (the identity
\* default, a supplied table of permutations, the copy of such a state).
C3_RowsPermutationsOfValidBaseline ==
    \A s \in {parent, child} :
        (s # NoSolution
            /\ IsPermutationTable(Deref(arrays, s.unpermuted_modes), s.n_modes))
        => RowsArePermutations(s)

\* C3 witness: one channel of a copy with a valid baseline was permuted again.
C3_CopyPermuted ==
    /\ call.who = "child"
    /\ call.op \in {"permute_one_channel", "step"}
    /\ err = "none"
    /\ IsPermutationTable(Deref(arrays, child.unpermuted_modes), child.n_modes)
    /\ Deref(arrays, child.permuted_modes) # Deref(arrays, child.unpermuted_modes)

\* parent.copy() has just returned the child
Copied == call.op = "copy" /\ err = "none"

\* C6 as stated: the copy's unpermuted_modes equals the parent's permuted_modes
\* and the copy's permuted_modes is an equal copy of the parent's.
C6_CopyKeepsPermuted ==
    Copied =>
        /\ Deref(arrays, child.unpermuted_modes) = Deref(arrays, parent.permuted_modes)
        /\ Deref(arrays, child.permuted_modes) = Deref(arrays, parent.permuted_modes)

\* C6 amended: the copy's unpermuted_modes is a new array equal to the
\* parent's permuted_modes, and the copy's permuted_modes is unset.
C6_CopySeedsBaseline ==
    Copied =>
        /\ Deref(arrays, child.unpermuted_modes) = Deref(arrays, parent.permuted_modes)
        /\ child.unpermuted_modes # parent.permuted_modes
        /\ child.permuted_modes = None
        /\ child.n_modes = parent.n_modes
        /\ child.n_channels = parent.n_channels

\* C6 witness: a parent whose current state differs from its baseline was copied.
C6_CopiedMovedParent ==
    /\ Copied
    /\ Deref(arrays, parent.permuted_modes) # Deref(arrays, parent.unpermuted_modes)

Mutators == {"random_permutation", "permute_one_channel", "step"}

\* C7: a call of random_permutation, permute_one_channel or step on the copy
\* leaves both tables of the parent as they were, and such a call on the parent
\* leaves both tables of the copy as they were.
C7_CopyIndependent ==
    [][/\ (call'.who = "child" /\ call'.op \in Mutators)
            => Snapshot(arrays', parent') = Snapshot(arrays, parent)
       /\ (call'.who = "parent" /\ call'.op \in Mutators)
            => Snapshot(arrays', child') = Snapshot(arrays, child)]_vars

\* C7 witness: the copy was mutated away from the state it was copied from.
C7_CopyMutated ==
    /\ call.who = "child"
    /\ call.op \in Mutators
    /\ err = "none"
    /\ Deref(arrays, child.permuted_modes) # Deref(arrays, parent.permuted_modes)
    /\ Deref(arrays, child.unpermuted_modes) = Deref(arrays, parent.permuted_modes)

\* k of the scenario's tensor: the entry between mode 0 of channels 0 and 1
ScenarioK == problem.correlation_matrix[1][problem.n_modes + 1]

\* k * n_modes * (n_channels choose 2) * 2
TheoreticalMaximum ==
    ScenarioK * problem.n_modes
        * ((problem.n_channels * (problem.n_channels - 1)) \div 2) * 2

\* some proposal step() can draw is accepted
SomeProposalAccepted ==
    \E channel \in 0..(best_solution.n_channels - 1) :
    \E p \in rng_permutation(best_solution.n_modes) :
        SolverStep(arrays, problem, best_solution, best_value, channel, p).accepted

\* the two channels hold the same mode in every slot
Aligned ==
    \A c \in 1..best_solution.n_channels :
        BestTables.permuted_modes[c] = BestTables.permuted_modes[1]

\* C8: in the scenario, whenever best_value is below 6k some step() proposal
\* is accepted; best_value eventually equals 6k and stays there; and at 6k the
\* two channels' permuted_modes are equal slot by slot.
C8_ConvergesToMaximum ==
    /\ [](SolverExists =>
            /\ best_value < TheoreticalMaximum => SomeProposalAccepted
            /\ best_value = TheoreticalMaximum => Aligned
            /\ TheoreticalMaximum = 6 * ScenarioK)
    /\ <>[](SolverExists /\ best_value = TheoreticalMaximum /\ Aligned)

\* C8 witness: the search climbed to the maximum through an intermediate value.
C8_ClimbedToMaximum ==
    /\ SolverExists
    /\ accepted
    /\ best_value = TheoreticalMaximum
    /\ Aligned
    /\ sum_perms(problem.correlation_matrix,
                 GlobalIndices(problem, BestTables.unpermuted_modes),
                 problem.n_modes, problem.n_channels)
            \in 1..(TheoreticalMaximum - 1)

Constructing == call.op \in {"Problem.__init__", "Solver.__init__"}

\* a selector that is not sum or abs_sum, by member name or by value
NotAScoringVariant(selector) ==
    selector.name \notin {"SUM", "ABS_SUM", "sum", "abs_sum"}

NothingConstructed ==
    problem = NoProblem /\ pc = "none" /\ best_solution = NoSolution

\* C9 as stated: constructing a Problem or a Solver with a selector that is
\* not a scoring variant fails at construction and creates nothing.
C9_UnknownSelectorFailsAtConstruction ==
    (Constructing /\ NotAScoringVariant(call.selector))
        => (err = "KeyError" /\ NothingConstructed)

\* C9 amended: Problem construction fails, creating nothing, exactly for a
\* string that names no member of Objective; with the member DYN_SUM it
\* succeeds and the error is raised by evaluate(); Solver construction fails,
\* creating nothing, for every selector but SUM and ABS_SUM.
C9_SelectorErrors ==
    /\ call.op = "Problem.__init__" =>
        /\ err = "KeyError" <=>
             (call.selector.kind = "str"
                /\ call.selector.name \notin {"SUM", "ABS_SUM", "DYN_SUM"})
        /\ err = "KeyError" => NothingConstructed
        /\ err = "none" => problem.objective = call.selector.name
    /\ call.op = "Solver.__init__" =>
        /\ err = "KeyError" <=> call.selector.name \notin {"SUM", "ABS_SUM"}
        /\ err = "KeyError" => NothingConstructed
        /\ err = "none" => (pc = "idle" /\ problem.objective = call.selector.name)
    /\ call.op = "evaluate" =>
        (err = "KeyError" <=> problem.objective = "DYN_SUM")

\* C9 witness: a Problem built with DYN_SUM exists and its evaluate() failed.
C9_DeferredError ==
    /\ call.op = "evaluate"
    /\ err = "KeyError"
    /\ problem # NoProblem
    /\ problem.objective = "DYN_SUM"

PermutedOne == call.op = "permute_one_channel"

\* C10 as stated: permute_one_channel fails with a bounds error exactly for
\* the channel indices outside [0, n_channels).
C10_FailsOutsideZeroToN ==
    PermutedOne =>
        (err = "IndexError"
            <=> ~(0 <= call.channel /\ call.channel < Get(call.who).n_channels))

\* C10 amended: permute_one_channel fails with a bounds error exactly for
\* channel >= n_channels and channel < -n_channels; for
\* -n_channels <= channel < 0 it succeeds, as for 0 <= channel < n_channels.
C10_FailsOutsideMinusNToN ==
    PermutedOne =>
        /\ err \in {"none", "IndexError"}
        /\ err = "IndexError"
            <=> (call.channel >= Get(call.who).n_channels
                    \/ call.channel < -Get(call.who).n_channels)

\* C10 witness: a negative channel index was accepted and a row permuted.
C10_NegativeChannelAccepted ==
    /\ PermutedOne
    /\ call.channel < 0
    /\ err = "none"
    /\ Get(call.who).permuted_modes # None

\* the solution a call was made on, after the call
GetAfter(who) == IF who = "parent" THEN parent' ELSE child'

\* C11: an operation that fails leaves prior state untouched: a failed
\* permute_one_channel leaves the solution's permuted_modes and
\* unpermuted_modes as they were, and a failed Solver.step()/solve() leaves
\* best_solution, best_value, record, steps and the iteration counter as they were.
C11_FailureLeavesStateUntouched ==
    [][/\ (call'.op = "permute_one_channel" /\ err' = "IndexError")
            => Snapshot(arrays', GetAfter(call'.who))
                    = Snapshot(arrays, Get(call'.who))
       /\ (call'.op \in {"Solver.step", "solve"} /\ err' # "none")
            => /\ Snapshot(arrays', best_solution') = Snapshot(arrays, best_solution)
               /\ UNCHANGED <<best_value, record, steps, _iteration>>]_vars

\* evaluate() or generate() was called on a solution whose permuted_modes is unset
CalledOnUnset ==
    /\ call.op \in {"evaluate", "generate"}
    /\ call.who = "parent"
    /\ parent.permuted_modes = None

\* C12 as stated: evaluate() and generate() on a solution with permuted_modes
\* unset fail with an error of a validation step, not with one the numeric
\* layer (None + array) or the objective look-up raises.
C12_UnsetRejectedByValidation ==
    CalledOnUnset => err \notin {"none", "TypeError", "KeyError"}

\* C12 amended: evaluate() and generate() on a solution with permuted_modes
\* unset fail at once, with the TypeError of None + array, or for evaluate()
\* with the KeyError of Objective.func when the objective has no scoring
\* function; no score or tensor is returned, and the solution and the problem
\* are left unchanged.
C12_UnsetFailsInNumericLayer ==
    /\ [](CalledOnUnset =>
            /\ err \in {"TypeError", "KeyError"}
            /\ err = "KeyError" <=>
                 (call.op = "evaluate" /\ problem.objective \notin ScoredNames))
    /\ [][(parent.permuted_modes = None /\ call'.op \in {"evaluate", "generate"})
            => /\ err' # "none"
               /\ UNCHANGED <<arrays, parent, child, problem, value, generated>>]_vars

\* C12 witness: generate() failed on a solution freshly returned by copy().
C12_GenerateOnFreshCopyFailed ==
    /\ CalledOnUnset
    /\ call.op = "generate"
    /\ err = "TypeError"
    /\ Deref(arrays, parent.unpermuted_modes)
            # tile(arange(parent.n_modes), parent.n_channels)

\* the tensor's diagonal is 1 and its entries between different channels are 0
DiagonalOneCrossZero(self) ==
    \A x, y \in 1..Len(self.correlation_matrix) :
        /\ x = y => self.correlation_matrix[x][y] = 1
        /\ ChannelOf(x, self.n_modes) # ChannelOf(y, self.n_modes)
            => self.correlation_matrix[x][y] = 0

\* evaluate() returned the score of the identity table under the sum objective
EvaluatedIdentity ==
    /\ call.op = "evaluate"
    /\ err = "none"
    /\ problem.objective = "SUM"
    /\ Deref(arrays, parent.permuted_modes)
            = tile(arange(parent.n_modes), parent.n_channels)

\* C13: with the sum objective, the identity table scores exactly 0 against a
\* tensor whose diagonal is 1 and whose cross-channel entries are 0, for every
\* n_modes >= 1 and n_channels >= 1.
C13_IdentityScoresZero ==
    (EvaluatedIdentity /\ DiagonalOneCrossZero(problem)) => value = 0

\* C13 witness: the identity table of several modes and channels scored 0
\* against such a tensor whose entries inside a channel are not 0.
C13_IdentityScored ==
    /\ EvaluatedIdentity
    /\ DiagonalOneCrossZero(problem)
    /\ problem.n_modes > 1
    /\ problem.n_channels > 1
    /\ problem.correlation_matrix[1][2] # 0
    /\ value = 0

\* the arguments evaluate() passes to the objective function
PassedIndices == GlobalIndices(problem, Deref(arrays, parent.permuted_modes))

\* the sub-matrix sum of slot i is negative
NegativeSlot(i) == SlotSum(problem.correlation_matrix, PassedIndices, i + 1) < 0

\* C14: where every slot's sub-matrix sum is non-negative abs_sum returns what
\* sum returns; abs_sum's total before the offset is never negative; and
\* abs_sum >= sum for every input.
C14_AbsSumDominatesSum ==
    scores.called =>
        /\ (\A i \in 0..(problem.n_modes - 1) : ~NegativeSlot(i))
                => scores.abs_sum = scores.sum
        /\ scores.abs_sum + problem.n_modes * problem.n_channels >= 0
        /\ scores.abs_sum >= scores.sum

\* C14 witness: both were called on a table with a negative slot and abs_sum
\* came out above sum.
C14_NegativeSlotScored ==
    /\ scores.called
    /\ \E i \in 0..(problem.n_modes - 1) : NegativeSlot(i)
    /\ \E i \in 0..(problem.n_modes - 1) : ~NegativeSlot(i)
    /\ scores.abs_sum > scores.sum

Symmetric(m) == \A x, y \in 1..Len(m) : m[x][y] = m[y][x]

\* generate() returned the stack for the solution's permuted_modes
Generated == call.op = "generate" /\ err = "none"

\* tensor[a * n_modes + permuted_modes[a][i]][b * n_modes + permuted_modes[b][i]]
\* for slot i and channels a, b, all counted from 0
EntryOf(i, a, b) ==
    LET perm == Deref(arrays, parent.permuted_modes)
    IN  problem.correlation_matrix[a * problem.n_modes + perm[a + 1][i + 1] + 1]
                                  [b * problem.n_modes + perm[b + 1][i + 1] + 1]

\* the sum of all entries of the stack generate() returned
GeneratedTotal ==
    SumSeq([i \in 1..Len(generated) |->
        SumSeq([a \in 1..Len(generated[i]) |-> SumSeq(generated[i][a])])])

\* C15: for a symmetric tensor generate() returns n_modes matrices of
\* n_channels x n_channels whose entry [i][a][b] is the tensor's entry for
\* mode permuted_modes[a][i] of channel a and mode permuted_modes[b][i] of
\* channel b, and the sum of all entries minus n_modes * n_channels is what
\* evaluate() returns under the sum objective.
C15_GenerateStacksSlots ==
    (Generated /\ Symmetric(problem.correlation_matrix)) =>
        /\ Len(generated) = problem.n_modes
        /\ \A i \in 0..(problem.n_modes - 1) :
            /\ Len(generated[i + 1]) = problem.n_channels
            /\ \A a \in 0..(problem.n_channels - 1) :
                /\ Len(generated[i + 1][a + 1]) = problem.n_channels
                /\ \A b \in 0..(problem.n_channels - 1) :
                    generated[i + 1][a + 1][b + 1] = EntryOf(i, a, b)
        /\ GeneratedTotal - problem.n_modes * problem.n_channels
            = evaluate([problem EXCEPT !.objective = "SUM"],
                       Deref(arrays, parent.permuted_modes)).value

\* C15 witness: generate() ran on a permuted table of 3 modes and 2 channels
\* against a symmetric tensor with non-zero cross-channel entries.
C15_GeneratedPermuted ==
    /\ Generated
    /\ Symmetric(problem.correlation_matrix)
    /\ problem.n_modes = 3
    /\ problem.n_channels = 2
    /\ Deref(arrays, parent.permuted_modes)
            # tile(arange(parent.n_modes), parent.n_channels)
    /\ \E i \in 1..3 : generated[i][1][2] # 0
    /\ \E i \in 1..3 : generated[i][1][2] = 0

\* permute_one_channel(c) with 0 <= c < n_channels has returned
PermutedInRange == PermutedOne /\ err = "none" /\ call.channel >= 0

\* C16: after permute_one_channel(c) with 0 <= c < n_channels every row of
\* permuted_modes but row c equals the row of unpermuted_modes, row c is a
\* permutation of 0..n_modes-1, and unpermuted_modes is what it was before.
C16_OnlyOneRowReplaced ==
    [][PermutedInRange' =>
        LET before == Snapshot(arrays, Get(call'.who))
            after  == Snapshot(arrays', GetAfter(call'.who))
            c      == call'.channel + 1
        IN  /\ after.unpermuted_modes = before.unpermuted_modes
            /\ Len(after.permuted_modes) = Len(after.unpermuted_modes)
            /\ \A r \in 1..Len(after.permuted_modes) :
                r # c => after.permuted_modes[r] = after.unpermuted_modes[r]
            /\ IsPermutationRow(after.permuted_modes[c],
                                Get(call'.who).n_modes)]_vars

\* C16 witness: permute_one_channel(c) ran on a parent whose earlier
\* permuted_modes, kept by a copy, differed from the baseline in another row.
C16_EarlierPermutationDiscarded ==
    /\ PermutedInRange
    /\ call.who = "parent"
    /\ child # NoSolution
    /\ \E r \in 1..parent.n_channels :
        /\ r # call.channel + 1
        /\ Deref(arrays, child.unpermuted_modes)[r]
                # Deref(arrays, parent.permuted_modes)[r]

\* this step is one call of MetaModeSolver.step(), direct or inside solve()
SolverStepTaken ==
    \/ pc = "idle" /\ call'.op = "Solver.step"
    \/ pc = "solving" /\ pc' = "solving"

\* the rows in which two tables of the same shape differ
RowsDiffering(t, u) == {r \in 1..Len(t) : t[r] # u[r]}

\* C17: in every step() the candidate that is evaluated is built from the
\* current best_solution's permuted_modes and differs from it in at most one
\* channel row.
C17_CandidateOneRowFromBest ==
    [][SolverStepTaken =>
        /\ solution'.unpermuted_modes = BestTables.permuted_modes
        /\ Len(solution'.permuted_modes) = Len(BestTables.permuted_modes)
        /\ Cardinality(RowsDiffering(solution'.permuted_modes,
                                     BestTables.permuted_modes)) <= 1]_vars

\* C17 witness: a second acceptance inside solve(): the accepted candidate was
\* built from an earlier accepted state that was not the identity baseline.
C17_ProposedFromAccepted ==
    /\ pc = "solving"
    /\ accepted
    /\ Len(record) >= 2
    /\ solution.unpermuted_modes
            # tile(arange(best_solution.n_modes), best_solution.n_channels)
    /\ Cardinality(RowsDiffering(solution.permuted_modes,
                                 solution.unpermuted_modes)) = 1

\* C18: in every state of a constructed Solver best_solution.permuted_modes is
\* set, each of its n_channels rows is a permutation of 0..n_modes-1, and
\* best_value is what evaluate() returns for best_solution.
C18_BestValueIsScoreOfBest ==
    SolverExists =>
        /\ best_solution.permuted_modes # None
        /\ Len(BestTables.permuted_modes) = best_solution.n_channels
        /\ IsPermutationTable(BestTables.permuted_modes, best_solution.n_modes)
        /\ evaluate(problem, BestTables.permuted_modes)
                = [err |-> "none", value |-> best_value]

\* C18 witness: a direct step() replaced the best solution after solve() had
\* replaced it before.
C18_BestReplacedTwice ==
    /\ SolverExists
    /\ call.op = "Solver.step"
    /\ accepted
    /\ Len(record) >= 1
    /\ best_value > record[Len(record)][2]
    /\ BestTables.permuted_modes = solution.permuted_modes

\* C19: with the Solver driven through solve() only, the values in record
\* strictly increase, a non-empty record ends with the current best_value and
\* steps ends with the tensor generate() gives for the current best_solution,
\* and a pass of solve() appends the accepted best's value and tensor, or, when
\* the candidate is rejected, leaves both histories as they are.
C19_RecordTracksBest ==
    /\ [](SolverExists =>
            /\ \A j \in 1..(Len(record) - 1) : record[j][2] < record[j + 1][2]
            /\ record # <<>> =>
                /\ record[Len(record)][2] = best_value
                /\ Len(steps) = Len(record)
                /\ steps[Len(steps)] = generate(problem, BestTables.permuted_modes))
    /\ [][SolverStepTaken =>
            IF accepted'
            THEN /\ record' = Append(record, <<_iteration, best_value'>>)
                 /\ steps' = Append(steps,
                        generate(problem,
                                 Snapshot(arrays', best_solution').permuted_modes))
            ELSE UNCHANGED <<record, steps, best_value>>]_vars

\* C19 witness: a pass of solve() rejected its candidate after two passes had
\* recorded two different tensors.
C19_TwoTensorsRecorded ==
    /\ pc = "solving"
    /\ ~accepted
    /\ Len(record) >= 2
    /\ steps[1] # steps[2]
    /\ record[Len(record)][2] = best_value

\* C20: a direct call of step() leaves record, steps and the iteration counter
\* as they were, accepted or not; they change only in a pass of solve().
C20_DirectStepKeepsHistories ==
    [][/\ (pc = "idle" /\ call'.op = "Solver.step")
            => UNCHANGED <<record, steps, _iteration>>
       /\ (record' # record \/ steps' # steps \/ _iteration' # _iteration)
            => (pc = "solving" /\ pc' = "solving")]_vars

\* C20 witness: after an accepted direct step() the last recorded value is
\* lower than best_value.
C20_RecordBehindBest ==
    /\ pc = "idle"
    /\ call.op = "Solver.step"
    /\ accepted
    /\ record # <<>>
    /\ record[Len(record)][2] < best_value
    /\ _iteration = entry_iteration

====
